---- MODULE Spec2Model ----
(***************************************************************************)
(* Model of scripts/convert_gif_fps.py: the time-based frame sampler       *)
(* _sample_indices_by_time and its caller convert_gif_fps.                 *)
(*                                                                         *)
(* Python ints are unbounded and are modelled by TLA+ integers.  The       *)
(* sample time t and the step step_ms are Python floats (IEEE-754 binary64)*)
(* and are modelled bit-exactly: a float is a record [m, e] whose value is *)
(* m * 2^e, with m a 53-bit significand kept as a sequence of bits, most   *)
(* significant first; division and addition round to nearest, ties to even.*)
(***************************************************************************)
EXTENDS Integers, Sequences, FiniteSets, TLC

(***************************************************************************)
(* Bounds of the model.                                                    *)
(***************************************************************************)
MaxLen == 3            \* longest duration list passed to the sampler
MaxDur == 2            \* largest duration of a frame (ms) in those lists
MaxFrames == 2         \* longest frame / duration list decoded from a GIF

(***************************************************************************)
(* IEEE-754 binary64 arithmetic on non-negative values.                    *)
(***************************************************************************)
Precision == 53        \* significand bits of a Python float

Zeros(k) == [j \in 1..k |-> 0]

Reverse(s) == [j \in 1..Len(s) |-> s[Len(s) + 1 - j]]

RECURSIVE BitsOfNat(_)
BitsOfNat(x) == IF x = 0 THEN <<>> ELSE Append(BitsOfNat(x \div 2), x % 2)

RECURSIVE NatOfBits(_)
NatOfBits(b) ==
    IF b = <<>> THEN 0
    ELSE 2 * NatOfBits(SubSeq(b, 1, Len(b) - 1)) + b[Len(b)]

RECURSIVE StripZeros(_)
StripZeros(b) ==
    IF b = <<>> THEN <<>>
    ELSE IF Head(b) = 1 THEN b ELSE StripZeros(Tail(b))

\* a, b: bit sequences of equal length, least significant bit first; c: carry
RECURSIVE AddLSB(_, _, _)
AddLSB(a, b, c) ==
    IF a = <<>> THEN <<c>>
    ELSE LET s == Head(a) + Head(b) + c
         IN  <<s % 2>> \o AddLSB(Tail(a), Tail(b), s \div 2)

\* sum of two bit sequences, most significant bit first
AddBits(a, b) ==
    LET w  == IF Len(a) > Len(b) THEN Len(a) ELSE Len(b)
        pa == Zeros(w - Len(a)) \o a
        pb == Zeros(w - Len(b)) \o b
    IN  Reverse(AddLSB(Reverse(pa), Reverse(pb), 0))

FZero == [m |-> <<>>, e |-> 0]

\* the nearest float (ties to even) to the exact value bits * 2^e, where
\* sticky says that the exact value has further non-zero bits below bits
RoundBits(bits, e, sticky) ==
    LET b == StripZeros(bits)
    IN  IF b = <<>> THEN FZero
        ELSE IF Len(b) <= Precision
        THEN [m |-> b \o Zeros(Precision - Len(b)), e |-> e - (Precision - Len(b))]
        ELSE LET keep  == SubSeq(b, 1, Precision)
                 rest  == SubSeq(b, Precision + 1, Len(b))
                 below == sticky \/ \E j \in 2..Len(rest) : rest[j] = 1
                 up    == rest[1] = 1 /\ (below \/ keep[Precision] = 1)
                 e2    == e + Len(rest)
                 inc   == AddBits(keep, <<1>>)
             IN  IF ~up THEN [m |-> keep, e |-> e2]
                 ELSE IF inc[1] = 1
                 THEN [m |-> SubSeq(inc, 1, Precision), e |-> e2 + 1]
                 ELSE [m |-> SubSeq(inc, 2, Precision + 1), e |-> e2]

\* float(x) of a non-negative Python int
FloatOfNat(x) == RoundBits(BitsOfNat(x), 0, FALSE)

\* x + y on floats
FAdd(x, y) ==
    IF x = FZero THEN y
    ELSE IF y = FZero THEN x
    ELSE LET e == IF x.e < y.e THEN x.e ELSE y.e
         IN  RoundBits(AddBits(x.m \o Zeros(x.e - e), y.m \o Zeros(y.e - e)), e, FALSE)

\* the first k bits of the binary fraction r / den (0 <= r < den)
RECURSIVE FracBits(_, _, _)
FracBits(r, den, k) ==
    IF k = 0 THEN <<>>
    ELSE <<(2 * r) \div den>> \o FracBits((2 * r) % den, den, k - 1)

\* the remainder left after those k bits
RECURSIVE FracRem(_, _, _)
FracRem(r, den, k) == IF k = 0 THEN r ELSE FracRem((2 * r) % den, den, k - 1)

\* number of zero bits that open the binary fraction r / den (0 < r < den)
RECURSIVE LeadZeros(_, _)
LeadZeros(r, den) == IF 2 * r >= den THEN 0 ELSE 1 + LeadZeros(2 * r, den)

\* float(num) / float(den) for positive ints that are exact as floats
FDiv(num, den) ==
    LET ib == BitsOfNat(num \div den)
        r  == num % den
        k  == IF ib # <<>> THEN Precision + 1
              ELSE LeadZeros(r, den) + Precision + 1
    IN  RoundBits(ib \o FracBits(r, den, k), 0 - k, FracRem(r, den, k) # 0)

\* floor(x) of a float x >= 0 below 2^31
FFloor(x) ==
    IF x = FZero \/ Precision + x.e <= 0 THEN 0
    ELSE NatOfBits(SubSeq(x.m, 1, Precision + x.e))

\* c <= x for a Python int c and a float x >= 0 (Python compares exactly)
IntLeFloat(c, x) ==
    IF x # FZero /\ Precision + x.e > 31 THEN TRUE ELSE c <= FFloor(x)

\* x < c for a float x >= 0 and a Python int c
FloatLtInt(x, c) == ~IntLeFloat(c, x)

\* x == c for a float x >= 0 and a Python int c
FloatEqInt(x, c) == c >= 0 /\ x = FloatOfNat(c)

\* int(round(x)) of a float x >= 0 below 2^31 (round half to even)
FRound(x) ==
    LET w == Precision + x.e          \* bits of x.m before the binary point
    IN  IF x = FZero \/ w < 0 THEN 0
        ELSE IF w >= Precision THEN FFloor(x)
        ELSE LET fl    == FFloor(x)
                 half  == x.m[w + 1] = 1
                 below == \E j \in (w + 2)..Precision : x.m[j] = 1
             IN  IF half /\ (below \/ fl % 2 = 1) THEN fl + 1 ELSE fl

(***************************************************************************)
(* Inputs.                                                                 *)
(***************************************************************************)
DurVals == {-1} \cup (0..MaxDur)

DurLists == UNION {[1..k -> DurVals] : k \in 0..MaxLen}

\* target rates: invalid ones, rates whose step is an exact float
\* (2 ms, 1 ms) and one whose step is not (1000/1500 ms)
FpsSet == {-1, 0, 500, 1000, 1500}

\* the worked example of the documentation, and a 12 fps conversion
ConcreteCases ==
    { <<(<<100, 100, 100, 100, 100>>), 5>>, <<(<<500, 50, 100>>), 12>> }

Inputs == (DurLists \X FpsSet) \cup ConcreteCases

\* what Pillow reports as the duration of a frame: ok = FALSE when the
\* value is not convertible by int()
RawVals == {[ok |-> FALSE, v |-> 0]} \cup {[ok |-> TRUE, v |-> x] : x \in 0..MaxDur}

RawLists == UNION {[1..k -> RawVals] : k \in 0..MaxFrames}

(***************************************************************************)
(* Pure helpers of the program.                                            *)
(***************************************************************************)
DefaultDur == 33

\* _durations_ms: one duration per frame, 33 ms when missing or not positive
DurOf(raw) == IF ~raw.ok \/ raw.v <= 0 THEN DefaultDur ELSE raw.v

_durations_ms(raws) == [j \in 1..Len(raws) |-> DurOf(raws[j])]

RECURSIVE Sum(_)
Sum(s) == IF s = <<>> THEN 0 ELSE Head(s) + Sum(Tail(s))

Min(a, b) == IF a < b THEN a ELSE b

EntryOutcomeSwapped(durs, fps) ==
    IF Sum(durs) <= 0 THEN "fallback"
    ELSE IF fps <= 0 THEN "raise"
    ELSE "walk"

\* the two early exits of _sample_indices_by_time, in the order of the code
EntryOutcome(durs, fps) ==
    IF fps <= 0 THEN "raise"
    ELSE IF Sum(durs) <= 0 THEN "fallback"
    ELSE "walk"

DegenerateResultEmpty == <<>>

\* the value returned for an empty or zero-length timeline
DegenerateResult == <<0>>

StepMsCentis(fps) == FDiv(100, fps)

\* step_ms = 1000.0 / dst_fps
StepMs(fps) == FDiv(1000, fps)

\* inner loop condition ends[i] <= t: frame i (0-based) has ended at time t
CoveredStrict(e, idx, tm) == IntLeFloat(e[idx + 1], tm) /\ ~FloatEqInt(tm, e[idx + 1])

Covered(e, idx, tm) == IntLeFloat(e[idx + 1], tm)

KeepsAll(idx, last) == TRUE

\* dedup loop: idx is kept when it differs from the last kept index
Keeps(idx, last) == idx # last

AppendedOneBased(o, idx) == Append(o, idx + 1)

\* out.append(i)
Appended(o, idx) == Append(o, idx)

(***************************************************************************)
(* State.  Python lists are sequences; list index k is element k + 1.      *)
(***************************************************************************)
VARIABLES
    pc,             \* position of the program
    caller,         \* "none", "direct" (the sampler called on its own) or "convert"
    frames,         \* convert_gif_fps: decoded frames, each named by its position
    durs,           \* convert_gif_fps: decoded durations
    durations_ms,   \* sampler argument
    dst_fps,        \* target rate (an int-valued float)
    total_ms, step_ms, acc, ends, out, t, i, n,    \* sampler locals
    pos,            \* dedup loop: position in out of the next idx
    dedup,
    indices,        \* value returned by the sampler
    err,            \* exception raised: "none", "ValueError", "IndexError"
    out_frames, out_duration_ms, result

vars == <<pc, caller, frames, durs, durations_ms, dst_fps, total_ms, step_ms,
          acc, ends, out, t, i, n, pos, dedup, indices, err,
          out_frames, out_duration_ms, result>>

callVars == <<caller, frames, durs, durations_ms, dst_fps>>
walkVars == <<total_ms, step_ms, acc, ends, out, t, i, n>>
tailVars == <<pos, dedup, indices>>
convVars == <<out_frames, out_duration_ms, result>>

Init ==
    /\ pc = "start"
    /\ caller = "none"
    /\ frames = <<>>
    /\ durs = <<>>
    /\ durations_ms = <<>>
    /\ dst_fps = 0
    /\ total_ms = 0
    /\ step_ms = FZero
    /\ acc = 0
    /\ ends = <<>>
    /\ out = <<>>
    /\ t = FZero
    /\ i = 0
    /\ n = 0
    /\ pos = 0
    /\ dedup = <<>>
    /\ indices = <<>>
    /\ err = "none"
    /\ out_frames = <<>>
    /\ out_duration_ms = 0
    /\ result = <<>>

(***************************************************************************)
(* Callers.                                                                *)
(***************************************************************************)
\* the sampler called on its own with any list and rate
CallSample ==
    /\ pc = "start"
    /\ \E inp \in Inputs :
          /\ durations_ms' = inp[1]
          /\ dst_fps' = inp[2]
    /\ caller' = "direct"
    /\ pc' = "s_enter"
    /\ UNCHANGED <<frames, durs, walkVars, tailVars, err, convVars>>

\* convert_gif_fps: decode the frames and the durations of the input GIF
ConvertDecode ==
    /\ pc = "start"
    /\ \E nf \in 0..MaxFrames, raws \in RawLists, f \in FpsSet :
          /\ frames' = [j \in 1..nf |-> j - 1]
          /\ durs' = _durations_ms(raws)
          /\ dst_fps' = f
    /\ caller' = "convert"
    /\ pc' = "c_trunc"
    /\ UNCHANGED <<durations_ms, walkVars, tailVars, err, convVars>>

\* convert_gif_fps: cut both lists to the shorter length
ConvertTruncate ==
    /\ pc = "c_trunc"
    /\ IF Len(frames) # Len(durs)
       THEN LET k == Min(Len(frames), Len(durs))
            IN  /\ frames' = SubSeq(frames, 1, k)
                /\ durs' = SubSeq(durs, 1, k)
       ELSE UNCHANGED <<frames, durs>>
    /\ pc' = "c_call"
    /\ UNCHANGED <<caller, durations_ms, dst_fps, walkVars, tailVars, err, convVars>>

ConvertCall ==
    /\ pc = "c_call"
    /\ durations_ms' = durs
    /\ pc' = "s_enter"
    /\ UNCHANGED <<caller, frames, durs, dst_fps, walkVars, tailVars, err, convVars>>

(***************************************************************************)
(* _sample_indices_by_time.                                                *)
(***************************************************************************)
SampleRaise ==
    /\ pc = "s_enter"
    /\ EntryOutcome(durations_ms, dst_fps) = "raise"
    /\ err' = "ValueError"
    /\ pc' = "raised"
    /\ UNCHANGED <<callVars, walkVars, tailVars, convVars>>

SampleDegenerate ==
    /\ pc = "s_enter"
    /\ EntryOutcome(durations_ms, dst_fps) = "fallback"
    /\ total_ms' = Sum(durations_ms)
    /\ indices' = DegenerateResult
    /\ pc' = "s_ret"
    /\ UNCHANGED <<callVars, step_ms, acc, ends, out, t, i, n, pos, dedup, err, convVars>>

SampleSetup ==
    /\ pc = "s_enter"
    /\ EntryOutcome(durations_ms, dst_fps) = "walk"
    /\ total_ms' = Sum(durations_ms)
    /\ step_ms' = StepMs(dst_fps)
    /\ ends' = <<>>
    /\ acc' = 0
    /\ pc' = "s_ends"
    /\ UNCHANGED <<callVars, out, t, i, n, tailVars, err, convVars>>

\* one round of the loop that builds the cumulative end-times
BuildEnds ==
    /\ pc = "s_ends"
    /\ Len(ends) < Len(durations_ms)
    /\ acc' = acc + durations_ms[Len(ends) + 1]
    /\ ends' = Append(ends, acc')
    /\ UNCHANGED <<pc, callVars, total_ms, step_ms, out, t, i, n, tailVars, err, convVars>>

WalkInit ==
    /\ pc = "s_ends"
    /\ Len(ends) = Len(durations_ms)
    /\ out' = <<>>
    /\ t' = FZero
    /\ i' = 0
    /\ n' = Len(durations_ms)
    /\ pc' = "w_outer"
    /\ UNCHANGED <<callVars, total_ms, step_ms, acc, ends, tailVars, err, convVars>>

\* while t < total_ms and i < n
WalkTest ==
    /\ pc = "w_outer"
    /\ pc' = IF FloatLtInt(t, total_ms) /\ i < n THEN "w_inner" ELSE "w_after"
    /\ UNCHANGED <<callVars, walkVars, tailVars, err, convVars>>

\* while i < n and ends[i] <= t: i += 1
WalkAdvance ==
    /\ pc = "w_inner"
    /\ i < n /\ Covered(ends, i, t)
    /\ i' = i + 1
    /\ UNCHANGED <<pc, callVars, total_ms, step_ms, acc, ends, out, t, n, tailVars, err, convVars>>

\* the inner loop ends; if i >= n: break
WalkInnerExit ==
    /\ pc = "w_inner"
    /\ ~(i < n /\ Covered(ends, i, t))
    /\ pc' = IF i >= n THEN "w_after" ELSE "w_append"
    /\ UNCHANGED <<callVars, walkVars, tailVars, err, convVars>>

WalkAppendReset ==
    /\ pc = "w_append"
    /\ out' = Appended(out, i)
    /\ t' = FAdd(t, step_ms)
    /\ i' = 0
    /\ pc' = "w_outer"
    /\ UNCHANGED <<callVars, total_ms, step_ms, acc, ends, n, tailVars, err, convVars>>

\* out.append(i); t += step_ms
WalkAppend ==
    /\ pc = "w_append"
    /\ out' = Appended(out, i)
    /\ t' = FAdd(t, step_ms)
    /\ pc' = "w_outer"
    /\ UNCHANGED <<callVars, total_ms, step_ms, acc, ends, i, n, tailVars, err, convVars>>

\* if not out: out = [0]
Fallback ==
    /\ pc = "w_after"
    /\ out' = IF out = <<>> THEN <<0>> ELSE out
    /\ pc' = "d_init"
    /\ UNCHANGED <<callVars, total_ms, step_ms, acc, ends, t, i, n, tailVars, err, convVars>>

\* dedup = [out[0]]
DedupInit ==
    /\ pc = "d_init"
    /\ dedup' = <<out[1]>>
    /\ pos' = 2
    /\ pc' = "d_loop"
    /\ UNCHANGED <<callVars, walkVars, indices, err, convVars>>

\* for idx in out[1:]: if idx != dedup[-1]: dedup.append(idx)
DedupStep ==
    /\ pc = "d_loop"
    /\ pos <= Len(out)
    /\ dedup' = IF Keeps(out[pos], dedup[Len(dedup)]) THEN Append(dedup, out[pos])
                ELSE dedup
    /\ pos' = pos + 1
    /\ UNCHANGED <<pc, callVars, walkVars, indices, err, convVars>>

SampleReturn ==
    /\ pc = "d_loop"
    /\ pos > Len(out)
    /\ indices' = dedup
    /\ pc' = "s_ret"
    /\ UNCHANGED <<callVars, walkVars, pos, dedup, err, convVars>>

\* the sampler called on its own hands its result back
DirectReturn ==
    /\ pc = "s_ret"
    /\ caller = "direct"
    /\ pc' = "done"
    /\ UNCHANGED <<callVars, walkVars, tailVars, err, convVars>>

(***************************************************************************)
(* convert_gif_fps after the sampler.                                      *)
(***************************************************************************)
\* out_frames = [frames[i] for i in indices]
ConvertSelect ==
    /\ pc = "s_ret"
    /\ caller = "convert"
    /\ IF \A k \in 1..Len(indices) : indices[k] < Len(frames)
       THEN /\ out_frames' = [k \in 1..Len(indices) |-> frames[indices[k] + 1]]
            /\ pc' = "c_save"
            /\ UNCHANGED err
       ELSE /\ err' = "IndexError"
            /\ pc' = "raised"
            /\ UNCHANGED out_frames
    /\ UNCHANGED <<callVars, walkVars, tailVars, out_duration_ms, result>>

\* the output is saved with one constant frame duration
ConvertSave ==
    /\ pc = "c_save"
    /\ LET r == FRound(StepMs(dst_fps))
       IN  out_duration_ms' = IF r > 1 THEN r ELSE 1
    /\ result' = <<Len(frames), Len(out_frames)>>
    /\ pc' = "done"
    /\ UNCHANGED <<callVars, walkVars, tailVars, err, out_frames>>

Next ==
    \/ CallSample
    \/ ConvertDecode
    \/ ConvertTruncate
    \/ ConvertCall
    \/ SampleRaise
    \/ SampleDegenerate
    \/ SampleSetup
    \/ BuildEnds
    \/ WalkInit
    \/ WalkTest
    \/ WalkAdvance
    \/ WalkInnerExit
    \/ WalkAppend
    \/ Fallback
    \/ DedupInit
    \/ DedupStep
    \/ SampleReturn
    \/ DirectReturn
    \/ ConvertSelect
    \/ ConvertSave

Spec == Init /\ [][Next]_vars

(***************************************************************************)
(* Vocabulary of the properties.                                           *)
(***************************************************************************)
\* the sampler has returned a sequence
Returned == pc \in {"s_ret", "c_save", "done"} \/ (pc = "raised" /\ err = "IndexError")

\* the sampler was entered and has passed its two early exits
PastEntry == pc \notin {"start", "c_trunc", "c_call", "s_enter"}

\* the sampler is in its walk, or past it
InWalk == pc \in {"w_outer", "w_inner", "w_append", "w_after"}

AllPositive(s) == \A j \in 1..Len(s) : s[j] > 0

\* the exact sample time k * 1000 / dst_fps lies before the integer time e
IdealBefore(k, e) == 1000 * k < e * dst_fps

\* number of sample times k * 1000 / dst_fps below total_ms: ceil(total_ms / stepMs)
IdealCount == (total_ms * dst_fps + 999) \div 1000

\* the smallest frame index whose end-time lies after sample time number k
IdealIndex(k) ==
    CHOOSE x \in 0..(Len(ends) - 1) :
        /\ IdealBefore(k, ends[x + 1])
        /\ \A y \in 0..(x - 1) : ~IdealBefore(k, ends[y + 1])

IdealWalk == [k \in 1..IdealCount |-> IdealIndex(k - 1)]

\* s with every run of equal consecutive elements collapsed to one
RECURSIVE Collapse(_)
Collapse(s) ==
    IF Len(s) <= 1 THEN s
    ELSE LET init == Collapse(SubSeq(s, 1, Len(s) - 1))
         IN  IF s[Len(s)] = s[Len(s) - 1] THEN init ELSE Append(init, s[Len(s)])

Example8 == <<100, 100, 100, 100, 100>>

(***************************************************************************)
(* Properties.                                                             *)
(***************************************************************************)
\* C1: for a non-empty list of positive durations and dst_fps > 0, the raw
\* walk out holds one index per exact sample time k * 1000 / dst_fps below
\* total_ms, namely the smallest i with ends[i] after that time, and the
\* returned sequence is out with runs of equal indices collapsed.
C1_WalkFollowsExactTimes ==
    (Returned /\ dst_fps > 0 /\ durations_ms # <<>> /\ AllPositive(durations_ms))
        => (out = IdealWalk /\ indices = Collapse(out))

\* C2: for a non-empty list of positive durations and dst_fps > 0, every
\* returned index is in [0, len(durations)) and the returned sequence is
\* non-decreasing.
C2_InRangeAndOrdered ==
    (Returned /\ dst_fps > 0 /\ durations_ms # <<>> /\ AllPositive(durations_ms))
        => /\ \A k \in 1..Len(indices) : indices[k] \in 0..(Len(durations_ms) - 1)
           /\ \A k \in 1..(Len(indices) - 1) : indices[k] <= indices[k + 1]

C2_Witness ==
    /\ pc = "s_ret" /\ dst_fps > 0 /\ durations_ms # <<>> /\ AllPositive(durations_ms)
    /\ Len(indices) >= 2
    /\ indices[Len(indices)] = Len(durations_ms) - 1

\* C3: whenever the sampler returns a sequence, for any durations, no two
\* consecutive elements of it are equal.
C3_NoAdjacentEqual ==
    Returned => \A k \in 1..(Len(indices) - 1) : indices[k] # indices[k + 1]

C3_Witness ==
    /\ pc = "s_ret" /\ Len(indices) >= 2 /\ Len(indices) < Len(out)

\* C4: with dst_fps <= 0 the sampler raises ValueError and returns nothing,
\* whatever the durations are (also for an empty or zero-sum list): past its
\* entry the only position is the raise, and no local has been computed.
C4_InvalidRateRaises ==
    (dst_fps <= 0 /\ PastEntry)
        => /\ pc = "raised" /\ err = "ValueError"
           /\ indices = <<>> /\ out = <<>> /\ dedup = <<>>

C4_Witness ==
    /\ pc = "raised" /\ err = "ValueError"
    /\ dst_fps <= 0 /\ Sum(durations_ms) <= 0 /\ durations_ms # <<>>

\* C5: with dst_fps > 0, an empty duration list and a list that sums to
\* zero make the sampler return exactly [0], without an error of its own.
C5_DegenerateReturnsZero ==
    (dst_fps > 0 /\ PastEntry /\ Sum(durations_ms) = 0)
        => Returned /\ indices = <<0>> /\ err # "ValueError"

C5_Witness ==
    /\ pc = "s_ret" /\ dst_fps > 0 /\ durations_ms = <<0, 0, 0>> /\ indices = <<0>>

\* C6: in convert_gif_fps with dst_fps > 0, every index the sampler returns
\* is a position of the (truncated) frame list, so the selection never
\* raises and the output holds at least one frame.
C6_SelectionSucceeds ==
    (caller = "convert" /\ dst_fps > 0)
        => /\ err # "IndexError"
           /\ pc = "s_ret" => \A k \in 1..Len(indices) : indices[k] \in 0..(Len(frames) - 1)
           /\ pc = "done" => Len(out_frames) >= 1

\* C7: when the sample time t of a walk step equals the end-time of frame
\* j, the index appended for t is never j; with positive durations it is
\* the next frame j + 1.
C7_TieSelectsNext ==
    pc = "w_append"
        => \A j \in 0..(n - 1) :
              FloatEqInt(t, ends[j + 1])
                 => /\ i # j
                    /\ AllPositive(durations_ms) => i = j + 1

C7_Witness ==
    /\ pc = "w_append" /\ AllPositive(durations_ms) /\ i >= 1
    /\ FloatEqInt(t, ends[i])

\* C8: for durations [100,100,100,100,100] and dst_fps = 5 the step is
\* 200 ms, the indices are appended at times 0, 200, 400 and no others, and
\* the result is [0, 2, 4].
C8_WorkedExample ==
    (durations_ms = Example8 /\ dst_fps = 5)
        => /\ InWalk => step_ms = FloatOfNat(200)
           /\ pc = "w_append" => Len(out) <= 2 /\ FloatEqInt(t, 200 * Len(out))
           /\ pc = "w_after" => Len(out) = 3
           /\ Returned => out = <<0, 2, 4>> /\ indices = <<0, 2, 4>>

C8_Witness ==
    /\ pc = "s_ret" /\ durations_ms = Example8 /\ dst_fps = 5 /\ Len(indices) = 3

\* C9: in every step the cursor i does not decrease and stays at most
\* len(durations); t changes only in the step that appends an index, and in
\* that step t becomes the float sum t + step_ms, which is a different value.
C9_CursorAndTimeAdvance ==
    [][ /\ i' >= i
        /\ i' <= Len(durations_ms')
        /\ t' # t => pc = "w_append" /\ out' = Append(out, i)
        /\ (InWalk /\ out' # out) => (t' = FAdd(t, step_ms) /\ t' # t)
      ]_vars

C9_Witness ==
    /\ pc = "w_after" /\ i >= 2 /\ Len(out) >= 3 /\ t # FZero

\* C10: for total_ms > 0 and dst_fps > 0 the cursor never runs past the
\* last frame, so the walk ends only because t >= total_ms; it then holds
\* exactly ceil(total_ms / stepMs) indices, at least one, and the fallback
\* to [0] finds a non-empty walk.  (That the walk ends at all is the
\* liveness half of the claim.)
C10_WalkEndsByTimeWithIdealCount ==
    (InWalk /\ total_ms > 0 /\ dst_fps > 0)
        => /\ i < n
           /\ pc = "w_after"
                 => /\ ~FloatLtInt(t, total_ms)
                    /\ out # <<>>
                    /\ Len(out) = IdealCount
====
